---- MODULE Spec2Model ----
(***************************************************************************)
(* A model of the executable parts of the applied_groundwater_modelling    *)
(* course repository: the notebook quiz checkers, the Darcy's-law          *)
(* self-assessment, the case-study climate cell, the helper functions the  *)
(* notebooks call, the accessibility switch, the dependency-check workflow *)
(* and the transport case study.  Texts are sequences of one-character     *)
(* strings, so that lower-casing, trimming and number formatting are       *)
(* computed.                                                               *)
(***************************************************************************)
EXTENDS Integers, Sequences, FiniteSets, TLC

(***************************************************************************)
(* Texts                                                                   *)
(***************************************************************************)

\* Python's str whitespace, as far as the inputs below use it.
Whitespace == {" ", "\t"}

\* str.lower() on one character.
lower_char(c) ==
    CASE c = "E" -> "e"
      [] c = "A" -> "a"
      [] c = "W" -> "w"
      [] c = "C" -> "c"
      [] OTHER -> c

\* str.lower()
lower(s) == [k \in 1..Len(s) |-> lower_char(s[k])]

RECURSIVE lstrip(_)
\* str.lstrip(): drop the leading whitespace.
lstrip(s) ==
    IF s = <<>> THEN <<>>
    ELSE IF Head(s) \in Whitespace THEN lstrip(Tail(s)) ELSE s

RECURSIVE rstrip(_)
\* str.rstrip(): drop the trailing whitespace.
rstrip(s) ==
    IF s = <<>> THEN <<>>
    ELSE IF s[Len(s)] \in Whitespace THEN rstrip(SubSeq(s, 1, Len(s) - 1)) ELSE s

\* str.strip()
strip(s) == rstrip(lstrip(s))

\* One printed line: a fixed text followed by an interpolated text.
Line(text, arg) == [text |-> text, arg |-> arg]

(***************************************************************************)
(* Bounds                                                                  *)
(***************************************************************************)

\* Longest run of whitespace a learner types before or after an answer.
MaxPad == 1

\* Number of positions of each Darcy slider, counted from its minimum, that
\* the learner moves it to.
SliderStops == 12

\* Deepest working directory the case-study notebook is run from.
MaxCwdDepth == 3

\* Years after 1970 up to the present year of the downloader's run.
MaxYearSpan == 2

\* Number of wells the downloader has in its list.
NumWells == 3

\* Largest number of worker threads given on the command line.
MaxWorkers == 2

\* Most cell runs and widget events waiting for the kernel.
MaxQueue == 2

\* Largest discharge of the spring, in L/s, a learner works exercise 1 with.
MaxDischarge == 20

\* Largest precipitation rate, in mm/day.
MaxPrecipitation == 2

\* Largest porosity, in tenths.
MaxPorosity == 3

\* Most calls of check_task_with_solution in one kernel session.
MaxTaskCalls == 2

\* Largest number, in tenths, a learner enters as a task answer.
MaxTaskValue == 2

\* Most calls of download_named_file in one session.
MaxRequests == 4

\* Most cell executions in one notebook session.
MaxExecutions == 4

\* Most workflow runs looked at.
MaxRuns == 1

\* Most files one push or pull request touches.
MaxTouched == 2

(***************************************************************************)
(* State                                                                   *)
(***************************************************************************)

VARIABLES
    score,        \* exercise01: the kernel's global name `score`
    scoreBound,   \* exercise01: whether `score` has been assigned yet
    stdout,       \* exercise01: the lines the last run quiz cell printed
    lastTask,     \* exercise01: the checker the last run cell called (0: none)
    lastRaw       \* exercise01: the text the learner typed at its input()

quizVars == <<score, scoreBound, stdout, lastTask, lastRaw>>

VARIABLES
    darcyShown,   \* 03_assess_darcys_law: whether interactive_darcy() has run
    sliderK,      \* K slider, in steps of 0.1 m/day
    sliderI,      \* i slider, in steps of 0.001
    sliderA,      \* A slider, in steps of 1 m^2
    flowQ,        \* Q as calculate_flow returned it, in 10^-4 m^3/day
    flowPrinted   \* Q as printed with two decimals, in 10^-2 m^3/day

darcyVars == <<darcyShown, sliderK, sliderI, sliderA, flowQ, flowPrinted>>

VARIABLES
    cwd,            \* case-study notebook: the kernel's working directory
    fs,             \* the directories that exist on disk
    climatePc,      \* position in the climate data cell
    data_path,      \* the kernel's global name `data_path`
    climateOut,     \* the lines the climate cell has printed in this run
    readArgs,       \* the paths read_climate_data was called with in this run
    climate_norms   \* whether the global name `climate_norms` is bound

climateVars == <<cwd, fs, climatePc, data_path, climateOut, readArgs, climate_norms>>

VARIABLES
    kernelQueue,   \* the cell runs and widget events waiting for the kernel
    kernelBusy,    \* the operations the kernel is executing
    dlPc,          \* multi-year-downloader.py: "idle", "running" or "done"
    dlWaiting,     \* the wells whose worker is in the delay after a download
    dlArgv,        \* its command-line arguments
    dlStart,       \* first year to process
    dlEnd,         \* last year to process
    dlWorkers,     \* number of worker threads
    dlPending,     \* wells no worker has taken yet
    dlActive,      \* wells a worker thread is processing
    dlYear,        \* for each well, the next year to download
    dlStats        \* the shared statistics: per well, the years processed

kernelVars == <<kernelQueue, kernelBusy>>

downloaderVars == <<dlPc, dlArgv, dlStart, dlEnd, dlWorkers, dlPending, dlActive,
                    dlYear, dlStats, dlWaiting>>

VARIABLES
    evalShown,      \* 03_assess_darcys_law: whether the evaluation cell has run
    evalAnswer,     \* per scenario, the value of its RadioButtons
    evalOutput,     \* per scenario, the print calls its Output widget holds
    evalSubmitted   \* per scenario, the selection at the last Submit click

evalVars == <<evalShown, evalAnswer, evalOutput, evalSubmitted>>

VARIABLES
    solQ,         \* exercise01: the discharge Q worked with, in L/s
    solP,         \* the precipitation rate P, in mm/day
    solPhi,       \* the porosity, in tenths
    solAnswer,    \* per task, the answer text worked out (empty: not yet)
    solWritten3   \* the result of the quotient Solution 3 writes down

solutionVars == <<solQ, solP, solPhi, solAnswer, solWritten3>>

VARIABLES
    taskWidgets,    \* the widget sets check_task_with_solution has displayed
    nextModelId     \* number of widget models the kernel has created

taskVars == <<taskWidgets, nextModelId>>

VARIABLES
    configPresent,    \* data download: whether config.py exists
    configUrls,       \* the dataset names config.py has a URL for
    templateUrls,     \* the dataset names config_template.py has a URL for
    caseStudy,        \* CASE_STUDY of the configuration in effect
    dataDirs,         \* the directories that exist below the home directory
    dataFiles,        \* the data files stored below the home directory
    downloadCount,    \* number of files fetched from a repository link
    dataRequests,     \* number of download_named_file calls made
    lastRequest,      \* the name and data type of the last call
    lastOutcome       \* how the last call ended

dataVars == <<configPresent, configUrls, templateUrls, caseStudy, dataDirs, dataFiles,
              downloadCount, dataRequests, lastRequest, lastOutcome>>

VARIABLES
    accessibility_enabled,     \* accessibility_config: the mode of the switch
    show_image_descriptions,   \* the panel's option 'Show image descriptions'
    show_learning_context,     \* the panel's option 'Show learning context'
    execution_count,           \* the notebook's count of executed cells
    cellOutputs                \* per image cell, what its output area shows

accessVars == <<accessibility_enabled, show_image_descriptions, show_learning_context,
                execution_count, cellOutputs>>

VARIABLES
    wfVersion,     \* which of the two workflow files is in the repository
    wfIgnored,     \* the kinds of events that have started no run
    wfRuns         \* the runs of 'Check Notebook Dependencies', oldest first

workflowVars == <<wfVersion, wfIgnored, wfRuns>>

VARIABLES
    group_number,    \* transport case study: group.number of case_config.yaml
    scenarioLoaded,  \* whether the configuration cell has run
    groupScenario,   \* the scenarios selected for the group
    steps_per_day,   \* Cell 48: time steps per day of the stress period
    nstp,            \* Cell 48: time steps of the stress period, 0 before it ran
    modelNstp,       \* the nstp the transport model last ran with, 0 before
    crMax            \* Cell 89: maximum Courant number, in thousandths, -1 before

transportVars == <<group_number, scenarioLoaded, groupScenario, steps_per_day, nstp,
                   modelNstp, crMax>>

vars == <<quizVars, darcyVars, climateVars, kernelVars, downloaderVars, evalVars,
          solutionVars, taskVars, dataVars,
    accessVars,
    workflowVars,
    transportVars>>

\* Everything but the quiz cells' state.
notQuiz == <<darcyVars, climateVars, kernelVars, downloaderVars, evalVars, solutionVars, taskVars, dataVars,
    accessVars,
    workflowVars,
    transportVars>>

\* Everything but the Darcy widget's state.
notDarcy == <<quizVars, climateVars, kernelVars, downloaderVars, evalVars, solutionVars, taskVars, dataVars,
    accessVars,
    workflowVars,
    transportVars>>

\* Everything but the climate cell's state.
notClimate == <<quizVars, darcyVars, kernelVars, downloaderVars, evalVars, solutionVars, taskVars, dataVars,
    accessVars,
    workflowVars,
    transportVars>>

\* Everything but the kernel's and the downloader's state.
notRunning == <<quizVars, darcyVars, climateVars, evalVars, solutionVars, taskVars, dataVars,
    accessVars,
    workflowVars,
    transportVars>>

\* Everything but the worked solutions of exercise 1.
notSolution == <<quizVars, darcyVars, climateVars, kernelVars, downloaderVars, evalVars, taskVars, dataVars,
    accessVars,
    workflowVars,
    transportVars>>

\* Everything but the task widgets.
notTask == <<quizVars, darcyVars, climateVars, kernelVars, downloaderVars, evalVars,
             solutionVars, dataVars,
    accessVars,
    workflowVars,
    transportVars>>

\* Everything but the data download system.
notData == <<quizVars, darcyVars, climateVars, kernelVars, downloaderVars, evalVars,
             solutionVars, taskVars,
    accessVars,
    workflowVars,
    transportVars>>

\* Everything but the evaluation exercise's state.
notEval == <<quizVars, darcyVars, climateVars, kernelVars, downloaderVars, solutionVars, taskVars, dataVars,
    accessVars,
    workflowVars,
    transportVars>>

\* Everything but the accessibility settings and the image cells.
notAccess == <<quizVars, darcyVars, climateVars, kernelVars, downloaderVars,
    evalVars, solutionVars, taskVars, dataVars,
    workflowVars,
    transportVars>>

\* Everything but the dependency-check workflow.
notWorkflow == <<quizVars, darcyVars, climateVars, kernelVars, downloaderVars,
    evalVars, solutionVars, taskVars, dataVars, accessVars,
    transportVars>>

\* Everything but the transport case study.
notTransport == <<quizVars, darcyVars, climateVars, kernelVars, downloaderVars,
    evalVars, solutionVars, taskVars, dataVars, accessVars, workflowVars>>

(***************************************************************************)
(* Exercise 1: check_task1, check_task2, check_task3                       *)
(***************************************************************************)

\* check_task1.correct_answers[1]
correct_answers1 == <<"1", ".", "7">>

\* check_task2.correct_answers[1]
correct_answers2 == <<"3", "1", "5", "3", "6", "0", "0">>

\* check_task3.correct_answers[1]
correct_answers3 == <<"1", ".", "9">>

\* The texts a learner may type: the keys, other spellings of the same
\* numbers, and wrong answers.
Candidates ==
    { correct_answers1, correct_answers2, correct_answers3,
      <<"1", ".", "7", "0">>, <<"1", ",", "7">>, <<"1", ".", "7", "E", "0">>,
      <<"1", ".", "8">>, <<"2">>, <<>> }

RECURSIVE Pads(_)
\* The runs of whitespace of length at most n.
Pads(n) ==
    IF n = 0 THEN { <<>> }
    ELSE Pads(n - 1) \cup { <<w>> \o p : w \in Whitespace, p \in { q \in Pads(n - 1) : Len(q) = n - 1 } }

\* What input() may return: a candidate with whitespace around it.
RawInputs == { l \o c \o r : l \in Pads(MaxPad), c \in Candidates, r \in Pads(MaxPad) }

\* A variant of quiz_question that also accepts the key written with one
\* more decimal zero.
quiz_question_trailing_zero(acc, question, key, raw) ==
    LET answer == strip(lower(raw))
        asked  == Append(acc.out, Line(question, <<>>))
        echoed == Append(asked, Line("Your answer : ", answer))
    IN  IF answer = key \/ answer = Append(key, "0")
        THEN [score |-> acc.score + 1, out |-> Append(echoed, Line("Correct!", <<>>))]
        ELSE [score |-> acc.score,
              out   |-> Append(echoed, Line("Incorrect. The correct answer is ", key))]

\* The body of the `for q_num, question in questions.items()` loop, for the
\* one question each checker has: prints, compares, and adds to the score.
quiz_question(acc, question, key, raw) ==
    LET answer == strip(lower(raw))
        asked  == Append(acc.out, Line(question, <<>>))
        echoed == Append(asked, Line("Your answer : ", answer))
    IN  IF answer = key
        THEN [score |-> acc.score + 1, out |-> Append(echoed, Line("Correct!", <<>>))]
        ELSE [score |-> acc.score,
              out   |-> Append(echoed, Line("Incorrect. The correct answer is ", key))]

\* A variant of check_task1 that keeps counting in the kernel's global `score`.
check_task1_global(raw) ==
    quiz_question([score |-> score, out |-> <<>>],
                  "Area of the Tsalet catchement in km^2 (rounding to 1 decimal)?",
                  correct_answers1, raw)

\* check_task1(): score = 0, the loop over its one question, return score.
check_task1(raw) ==
    quiz_question([score |-> 0, out |-> <<>>],
                  "Area of the Tsalet catchement in km^2 (rounding to 1 decimal)?",
                  correct_answers1, raw)

\* check_task2()
check_task2(raw) ==
    quiz_question([score |-> 0, out |-> <<>>],
                  "Total volume of the aquifer in m^3?",
                  correct_answers2, raw)

\* check_task3()
check_task3(raw) ==
    quiz_question([score |-> 0, out |-> <<>>],
                  "Mean thickness the aquifer in meter (rounding to 1 decimal)?",
                  correct_answers3, raw)

\* The cell `score = check_task1()`, the learner typing raw at the prompt.
RunTask1 ==
    \E raw \in RawInputs :
        LET r == check_task1(raw)
        IN  /\ score' = r.score
            /\ scoreBound' = TRUE
            /\ stdout' = r.out
            /\ lastTask' = 1
            /\ lastRaw' = raw
            /\ UNCHANGED notQuiz

\* The cell `score = check_task2()`.
RunTask2 ==
    \E raw \in RawInputs :
        LET r == check_task2(raw)
        IN  /\ score' = r.score
            /\ scoreBound' = TRUE
            /\ stdout' = r.out
            /\ lastTask' = 2
            /\ lastRaw' = raw
            /\ UNCHANGED notQuiz

\* The cell `score = check_task3()`.
RunTask3 ==
    \E raw \in RawInputs :
        LET r == check_task3(raw)
        IN  /\ score' = r.score
            /\ scoreBound' = TRUE
            /\ stdout' = r.out
            /\ lastTask' = 3
            /\ lastRaw' = raw
            /\ UNCHANGED notQuiz

QuizInit ==
    /\ score = 0
    /\ scoreBound = FALSE
    /\ stdout = <<>>
    /\ lastTask = 0
    /\ lastRaw = <<>>

QuizNext == RunTask1 \/ RunTask2 \/ RunTask3

(***************************************************************************)
(* Darcy's-law self-assessment, part 2: calculate_flow, interactive_darcy  *)
(***************************************************************************)

\* FloatSlider(min=0.1, max=10, step=0.1, value=1): K in tenths of m/day.
K_min == 1
K_max == 100
K_value == 10

\* FloatSlider(min=0.001, max=0.1, step=0.001, value=0.01): i in thousandths.
i_min == 1
i_max == 100
i_value == 10

\* FloatSlider(min=1, max=100, step=1, value=10): A in m^2.
A_min == 1
A_max == 100
A_value == 10

\* The slider positions lo..hi the learner reaches, and the slider's own value.
Stops(lo, hi, value) ==
    { v \in lo..hi : v < lo + SliderStops } \cup { value }

\* A variant of calculate_flow that divides by the area.
calculate_flow_per_area(K, i, A) == (K * i) \div A

\* calculate_flow(K, i, A): return K * i * A.  With K in tenths and i in
\* thousandths the result is in 10^-4 m^3/day.
calculate_flow(K, i, A) == K * i * A

\* f"{Q:.2f}": the two-decimal values nearest to q (in 10^-4); a tie is
\* decided by the binary value of the float, which the integers do not hold.
format_2f(q) ==
    { r \in { q \div 100, q \div 100 + 1 } : 2 * (100 * r - q) \in -100..100 }

\* plot_darcy(K, i, A): Q = calculate_flow(K, i, A); print it; draw the plot.
plot_darcy(K, i, A) ==
    /\ flowQ' = calculate_flow(K, i, A)
    /\ flowPrinted' \in format_2f(calculate_flow(K, i, A))

\* interactive_darcy(): @interact builds the three sliders with their values
\* and calls plot_darcy once.
interactive_darcy ==
    /\ darcyShown' = TRUE
    /\ sliderK' = K_value
    /\ sliderI' = i_value
    /\ sliderA' = A_value
    /\ plot_darcy(K_value, i_value, A_value)
    /\ UNCHANGED notDarcy

\* The learner moves the K slider: interact calls plot_darcy again.
MoveK ==
    /\ darcyShown
    /\ \E k \in Stops(K_min, K_max, K_value) :
        /\ k # sliderK
        /\ sliderK' = k
        /\ plot_darcy(k, sliderI, sliderA)
    /\ UNCHANGED <<darcyShown, sliderI, sliderA, notDarcy>>

\* The learner moves the i slider.
MoveI ==
    /\ darcyShown
    /\ \E g \in Stops(i_min, i_max, i_value) :
        /\ g # sliderI
        /\ sliderI' = g
        /\ plot_darcy(sliderK, g, sliderA)
    /\ UNCHANGED <<darcyShown, sliderK, sliderA, notDarcy>>

\* The learner moves the A slider.
MoveA ==
    /\ darcyShown
    /\ \E a \in Stops(A_min, A_max, A_value) :
        /\ a # sliderA
        /\ sliderA' = a
        /\ plot_darcy(sliderK, sliderI, a)
    /\ UNCHANGED <<darcyShown, sliderK, sliderI, notDarcy>>

DarcyInit ==
    /\ darcyShown = FALSE
    /\ sliderK = K_value
    /\ sliderI = i_value
    /\ sliderA = A_value
    /\ flowQ = 0
    /\ flowPrinted = 0

DarcyNext == interactive_darcy \/ MoveK \/ MoveI \/ MoveA

(***************************************************************************)
(* Case-study notebook: the climate data cell                              *)
(***************************************************************************)

\* Names of the directories a working directory is made of.
DirNames == {"home", "course"}

RECURSIVE Dirs(_)
\* The absolute directories of depth at most n, as sequences of names.
Dirs(n) ==
    IF n = 0 THEN { <<>> }
    ELSE Dirs(n - 1) \cup { Append(d, x) : d \in { e \in Dirs(n - 1) : Len(e) = n - 1 }, x \in DirNames }

\* os.path.join(base, '..') normalised: the parent, the root being its own.
parent(dir) == IF dir = <<>> THEN <<>> ELSE SubSeq(dir, 1, Len(dir) - 1)

\* os.path.abspath(os.path.join('..', '..', 'case_studies',
\* 'case_study_zurich', 'data', 'climate')) in working directory dir.
climate_data_path(dir) ==
    parent(parent(dir)) \o <<"case_studies", "case_study_zurich", "data", "climate">>

\* The paths the cell can compute.
DataPaths == { climate_data_path(d) : d \in Dirs(MaxCwdDepth) }

\* A variant of the existence check that raises when the path is missing.
ClimateCheckPathRaising ==
    /\ climatePc \in {"ready", "displayed", "raised"}
    /\ data_path' = climate_data_path(cwd)
    /\ readArgs' = <<>>
    /\ IF climate_data_path(cwd) \in fs
       THEN climateOut' = <<>> /\ climatePc' = "checked"
       ELSE /\ climateOut' = << Line("FileNotFoundError: ", climate_data_path(cwd)) >>
            /\ climatePc' = "raised"
    /\ UNCHANGED <<cwd, fs, climate_norms, notClimate>>

\* The cell is run: data_path = ...; if not os.path.exists(data_path):
\* print(f"Path {data_path} does not exist.")
ClimateCheckPath ==
    /\ climatePc \in {"ready", "displayed", "raised"}
    /\ data_path' = climate_data_path(cwd)
    /\ readArgs' = <<>>
    /\ climateOut' = IF climate_data_path(cwd) \in fs
                     THEN <<>>
                     ELSE << Line("Path {data_path} does not exist.", climate_data_path(cwd)) >>
    /\ climatePc' = "checked"
    /\ UNCHANGED <<cwd, fs, climate_norms, notClimate>>

\* climate_norms = read_climate_data(data_path, station_string='Fluntern'):
\* the call is made.
ClimateCallRead ==
    /\ climatePc = "checked"
    /\ readArgs' = Append(readArgs, data_path)
    /\ climatePc' = "reading"
    /\ UNCHANGED <<cwd, fs, data_path, climateOut, climate_norms, notClimate>>

\* read_climate_data returns; climate_norms is bound and displayed.  The
\* function is outside the notebook, so whether it returns is left open.
ClimateReadReturns ==
    /\ climatePc = "reading"
    /\ climate_norms' = TRUE
    /\ climateOut' = Append(climateOut, Line("display(climate_norms)", <<>>))
    /\ climatePc' = "displayed"
    /\ UNCHANGED <<cwd, fs, data_path, readArgs, notClimate>>

\* read_climate_data raises; the cell stops with a traceback.
ClimateReadRaises ==
    /\ climatePc = "reading"
    /\ climateOut' = Append(climateOut, Line("Traceback", <<>>))
    /\ climatePc' = "raised"
    /\ UNCHANGED <<cwd, fs, data_path, readArgs, climate_norms, notClimate>>

ClimateInit ==
    /\ cwd \in Dirs(MaxCwdDepth)
    /\ fs \in SUBSET DataPaths
    /\ climatePc = "ready"
    /\ data_path = <<>>
    /\ climateOut = <<>>
    /\ readArgs = <<>>
    /\ climate_norms = FALSE

\* One of the initial states: the kernel started in the root directory of an
\* empty disk.
ClimateRest ==
    /\ cwd = <<>>
    /\ fs = {}
    /\ climatePc = "ready"
    /\ data_path = <<>>
    /\ climateOut = <<>>
    /\ readArgs = <<>>
    /\ climate_norms = FALSE

ClimateNext ==
    ClimateCheckPath \/ ClimateCallRead \/ ClimateReadReturns \/ ClimateReadRaises

(***************************************************************************)
(* Execution: the notebook kernel and multi-year-downloader.py             *)
(***************************************************************************)

\* The kinds of operation a notebook asks its kernel for.
OpKinds == {"cell", "callback"}

\* The learner runs a cell or uses a widget: the request waits in the queue.
KernelRequest ==
    /\ Len(kernelQueue) < MaxQueue
    /\ \E k \in OpKinds : kernelQueue' = Append(kernelQueue, k)
    /\ UNCHANGED <<kernelBusy, downloaderVars, notRunning>>

\* The kernel is free to start the next request.
kernel_idle == kernelBusy = {}

\* The kernel starts the request at the head of the queue.
KernelStart ==
    /\ kernelQueue # <<>>
    /\ kernel_idle
    /\ kernelBusy' = kernelBusy \cup { [kind |-> Head(kernelQueue), seat |-> Cardinality(kernelBusy)] }
    /\ kernelQueue' = Tail(kernelQueue)
    /\ UNCHANGED <<downloaderVars, notRunning>>

\* The operation the kernel is executing returns.
KernelFinish ==
    /\ \E op \in kernelBusy : kernelBusy' = kernelBusy \ {op}
    /\ UNCHANGED <<kernelQueue, downloaderVars, notRunning>>

\* "processes years 1970 to present"
DefaultStartYear == 1970

\* The year of the run.
PresentYear == DefaultStartYear + MaxYearSpan

\* "The third parameter specifies the number of worker threads (default: 1)."
DefaultWorkers == 1

Wells == 1..NumWells

Years == DefaultStartYear..PresentYear

\* The command lines of the README: no argument, a year range, or a year
\* range and the number of worker threads.
CommandLines ==
    { <<>> }
    \cup { <<a, b>> : a \in Years, b \in Years }
    \cup { <<a, b, n>> : a \in Years, b \in Years, n \in 1..MaxWorkers }

\* A variant of parse_args that always takes the whole range of years.
parse_args_all_years(argv) ==
    [ start   |-> DefaultStartYear,
      end     |-> PresentYear,
      workers |-> IF Len(argv) >= 3 THEN argv[3] ELSE DefaultWorkers ]

\* The settings of a run, from its command line.
parse_args(argv) ==
    [ start   |-> IF Len(argv) >= 2 THEN argv[1] ELSE DefaultStartYear,
      end     |-> IF Len(argv) >= 2 THEN argv[2] ELSE PresentYear,
      workers |-> IF Len(argv) >= 3 THEN argv[3] ELSE DefaultWorkers ]

\* python multi-year-downloader.py [start end [workers]]
DlRun ==
    /\ dlPc \in {"idle", "done"}
    /\ \E argv \in CommandLines :
        /\ dlArgv' = argv
        /\ dlStart' = parse_args(argv).start
        /\ dlEnd' = parse_args(argv).end
        /\ dlWorkers' = parse_args(argv).workers
    /\ dlPc' = "running"
    /\ dlPending' = Wells
    /\ dlActive' = {}
    /\ dlYear' = [w \in Wells |-> 0]
    /\ dlStats' = [w \in Wells |-> {}]
    /\ dlWaiting' = {}
    /\ UNCHANGED <<kernelVars, notRunning>>

\* A variant of worker_free for a pool that starts every well at once.
worker_free_always == TRUE

\* A worker thread of the pool is free.
worker_free == Cardinality(dlActive) < dlWorkers

\* A free worker thread takes the next well.
DlTakeWell ==
    /\ dlPc = "running"
    /\ worker_free
    /\ \E w \in dlPending :
        /\ dlPending' = dlPending \ {w}
        /\ dlActive' = dlActive \cup {w}
        /\ dlYear' = [dlYear EXCEPT ![w] = dlStart]
    /\ UNCHANGED <<dlPc, dlArgv, dlStart, dlEnd, dlWorkers, dlStats, dlWaiting,
                   kernelVars, notRunning>>

\* A worker downloads and extracts one year of its well, records the year
\* in the shared statistics, and enters the delay.
DlProcessYear ==
    /\ dlPc = "running"
    /\ \E w \in dlActive \ dlWaiting :
        /\ dlYear[w] <= dlEnd
        /\ dlStats' = [dlStats EXCEPT ![w] = @ \cup { dlYear[w] }]
        /\ dlYear' = [dlYear EXCEPT ![w] = @ + 1]
        /\ dlWaiting' = dlWaiting \cup {w}
    /\ UNCHANGED <<dlPc, dlArgv, dlStart, dlEnd, dlWorkers, dlPending, dlActive,
                   kernelVars, notRunning>>

\* "The script adds a delay between downloads": the delay of a worker ends.
DlDelay ==
    /\ dlPc = "running"
    /\ \E w \in dlWaiting : dlWaiting' = dlWaiting \ {w}
    /\ UNCHANGED <<dlPc, dlArgv, dlStart, dlEnd, dlWorkers, dlPending, dlActive,
                   dlYear, dlStats, kernelVars, notRunning>>

\* A worker has no year left for its well and becomes free.
DlWellDone ==
    /\ dlPc = "running"
    /\ \E w \in dlActive \ dlWaiting :
        /\ dlYear[w] > dlEnd
        /\ dlActive' = dlActive \ {w}
    /\ UNCHANGED <<dlPc, dlArgv, dlStart, dlEnd, dlWorkers, dlPending, dlYear, dlStats,
                   dlWaiting, kernelVars, notRunning>>

\* Every well is done: the combined files and the statistics are written.
DlFinish ==
    /\ dlPc = "running"
    /\ dlPending = {}
    /\ dlActive = {}
    /\ dlPc' = "done"
    /\ UNCHANGED <<dlArgv, dlStart, dlEnd, dlWorkers, dlPending, dlActive, dlYear, dlStats,
                   dlWaiting, kernelVars, notRunning>>

RunningInit ==
    /\ kernelQueue = <<>>
    /\ kernelBusy = {}
    /\ dlPc = "idle"
    /\ dlArgv = <<>>
    /\ dlStart = DefaultStartYear
    /\ dlEnd = PresentYear
    /\ dlWorkers = DefaultWorkers
    /\ dlPending = {}
    /\ dlActive = {}
    /\ dlYear = [w \in Wells |-> 0]
    /\ dlStats = [w \in Wells |-> {}]
    /\ dlWaiting = {}

RunningNext ==
    \/ KernelRequest \/ KernelStart \/ KernelFinish
    \/ DlRun \/ DlTakeWell \/ DlProcessYear \/ DlDelay \/ DlWellDone \/ DlFinish

(***************************************************************************)
(* Darcy's-law self-assessment, part 4: EvaluationExercise                 *)
(***************************************************************************)

\* EvaluationExercise.__init__: self.scenarios, indexed from 0.
scenarios ==
    [ k \in 0..2 |->
        CASE k = 0 -> [ description |-> "Flow through a fractured granite bedrock with large apertures",
                        correct     |-> FALSE,
                        explanation |-> "Darcy's Law assumes laminar flow through porous media. In large fractures, flow may be turbulent." ]
          [] k = 1 -> [ description |-> "Flow through a homogeneous sand aquifer",
                        correct     |-> TRUE,
                        explanation |-> "This is an ideal scenario for Darcy's Law - homogeneous porous media with laminar flow." ]
          [] OTHER -> [ description |-> "Flow in a karst aquifer with large solution channels",
                        correct     |-> FALSE,
                        explanation |-> "Karst aquifers often exhibit turbulent flow in solution channels, violating Darcy's Law assumptions." ] ]

\* widgets.RadioButtons(options=['Yes', 'No']): the value starts at the
\* first option.
options == <<"Yes", "No">>

\* A variant of check_answer that does not clear the output first.
check_answer_keep(out, value, scenario) ==
    LET user_correct == (value = "Yes") = scenario.correct
        verdict == IF user_correct
                   THEN Append(out, Line("Correct!", ""))
                   ELSE Append(out, Line("Incorrect.", ""))
    IN  Append(verdict, Line("\nExplanation: ", scenario.explanation))

\* A variant of check_answer that explains only an incorrect answer.
check_answer_terse(out, value, scenario) ==
    LET user_correct == (value = "Yes") = scenario.correct
    IN  IF user_correct
        THEN << Line("Correct!", "") >>
        ELSE << Line("Incorrect.", ""), Line("\nExplanation: ", scenario.explanation) >>

\* A variant of check_answer that takes 'Yes' for the right answer of every
\* scenario.
check_answer_yes_is_right(out, value, scenario) ==
    LET cleared == SubSeq(out, 1, 0)
        user_correct == (value = "Yes")
        verdict == IF user_correct
                   THEN Append(cleared, Line("Correct!", ""))
                   ELSE Append(cleared, Line("Incorrect.", ""))
    IN  Append(verdict, Line("\nExplanation: ", scenario.explanation))

\* check_answer(b), on the Output holding out, the RadioButtons holding
\* value: clear_output(), then the verdict and the explanation are printed.
\* The result is the sequence of print calls the Output holds afterwards.
check_answer(out, value, scenario) ==
    LET cleared == SubSeq(out, 1, 0)
        user_correct == (value = "Yes") = scenario.correct
        verdict == IF user_correct
                   THEN Append(cleared, Line("Correct!", ""))
                   ELSE Append(cleared, Line("Incorrect.", ""))
    IN  Append(verdict, Line("\nExplanation: ", scenario.explanation))

\* The cell: evaluation = EvaluationExercise(); each scenario is presented
\* with new RadioButtons, Submit button and Output.
EvalRunCell ==
    /\ evalShown' = TRUE
    /\ evalAnswer' = [k \in DOMAIN scenarios |-> options[1]]
    /\ evalOutput' = [k \in DOMAIN scenarios |-> <<>>]
    /\ evalSubmitted' = [k \in DOMAIN scenarios |-> "none"]
    /\ UNCHANGED notEval

\* The learner selects an option of scenario k; no callback is attached to
\* the RadioButtons.
EvalSelect ==
    /\ evalShown
    /\ \E k \in DOMAIN scenarios : \E v \in {options[1], options[2]} :
        /\ v # evalAnswer[k]
        /\ evalAnswer' = [evalAnswer EXCEPT ![k] = v]
    /\ UNCHANGED <<evalShown, evalOutput, evalSubmitted, notEval>>

\* The learner clicks Submit of scenario k: submit.on_click(check_answer).
EvalSubmit ==
    /\ evalShown
    /\ \E k \in DOMAIN scenarios :
        /\ evalOutput' = [evalOutput EXCEPT ![k] = check_answer(@, evalAnswer[k], scenarios[k])]
        /\ evalSubmitted' = [evalSubmitted EXCEPT ![k] = evalAnswer[k]]
    /\ UNCHANGED <<evalShown, evalAnswer, notEval>>

EvalInit ==
    /\ evalShown = FALSE
    /\ evalAnswer = [k \in DOMAIN scenarios |-> options[1]]
    /\ evalOutput = [k \in DOMAIN scenarios |-> <<>>]
    /\ evalSubmitted = [k \in DOMAIN scenarios |-> "none"]

EvalNext == EvalRunCell \/ EvalSelect \/ EvalSubmit

(***************************************************************************)
(* Exercise 1: the documented solutions                                    *)
(***************************************************************************)

\* The context of the exercise: Q = 20 L/s, P = 1 mm/day, porosity 0.2.
Q_litres_per_second == 20
P_mm_per_day == 1
porosity_tenths == 2

\* Solution 2: the residence time of one year, "365 day".
tau_days == 365

\* Solution 3: the volume and, in tenths of km^2, the area it divides.
solution3_volume == 3123600
solution3_area_tenths == 17

\* The decimal digits, as characters.
digit(n) == <<"0", "1", "2", "3", "4", "5", "6", "7", "8", "9">>[n + 1]

RECURSIVE int_text(_)
\* A natural number written in decimal.
int_text(n) == IF n < 10 THEN << digit(n) >> ELSE Append(int_text(n \div 10), digit(n % 10))

\* A number given in tenths, written with one decimal.
tenths_text(t) == int_text(t \div 10) \o <<".">> \o << digit(t % 10) >>

\* n / d rounded to the nearest integer (halves up).
round_div(n, d) == (2 * n + d) \div (2 * d)

\* Q L/s in tenths of m^3/day: Q * 86400 / 1000 m^3/day.
discharge_tenths_m3_per_day(q) == q * 864

\* Solution 1: A = Q / P.  P mm/day are P / 1000 m/day, so A is
\* Q * 86.4 * 1000 / P m^2; the result is in tenths of km^2 "(rounding to 1
\* decimal)".
solution1_area_tenths(q, p) == round_div(discharge_tenths_m3_per_day(q), p * 1000)

\* A variant of Solution 2 that leaves the porosity out.
solution2_volume_no_porosity(q, phi) ==
    round_div(discharge_tenths_m3_per_day(q) * tau_days, 10)

\* Solution 2: V_aq = Q * tau / porosity, in m^3, with the porosity in
\* tenths.
solution2_volume(q, phi) == round_div(discharge_tenths_m3_per_day(q) * tau_days, phi)

\* Solution 3: M_aq = V_aq / A, with V_aq in m^3 and A in tenths of km^2; the
\* result is in tenths of a metre "(rounding to 1 decimal)".
solution3_thickness_tenths(volume, area_tenths) == round_div(volume, area_tenths * 10000)

\* The learner works out task 1.
Solve1 ==
    /\ solAnswer[1] = <<>>
    /\ solAnswer' = [solAnswer EXCEPT ![1] = tenths_text(solution1_area_tenths(solQ, solP))]
    /\ UNCHANGED <<solQ, solP, solPhi, solWritten3, notSolution>>

\* The learner works out task 2.
Solve2 ==
    /\ solAnswer[2] = <<>>
    /\ solAnswer' = [solAnswer EXCEPT ![2] = int_text(solution2_volume(solQ, solPhi))]
    /\ UNCHANGED <<solQ, solP, solPhi, solWritten3, notSolution>>

\* The learner works out task 3 "based on the previous results": the volume
\* of task 2 over the area of task 1 as answered, with one decimal.
Solve3 ==
    /\ solAnswer[1] # <<>>
    /\ solAnswer[2] # <<>>
    /\ solAnswer[3] = <<>>
    /\ solution1_area_tenths(solQ, solP) > 0
    /\ solAnswer' = [solAnswer EXCEPT ![3] =
           tenths_text(solution3_thickness_tenths(solution2_volume(solQ, solPhi),
                                                  solution1_area_tenths(solQ, solP)))]
    /\ UNCHANGED <<solQ, solP, solPhi, solWritten3, notSolution>>

\* The quotient Solution 3 writes down, 3123600 / (1.7 x 10^6) m, is
\* evaluated and rounded to one decimal.
Solution3Written ==
    /\ solWritten3 = <<>>
    /\ solWritten3' = tenths_text(solution3_thickness_tenths(solution3_volume, solution3_area_tenths))
    /\ UNCHANGED <<solQ, solP, solPhi, solAnswer, notSolution>>

SolutionInit ==
    /\ solQ \in 1..MaxDischarge
    /\ solP \in 1..MaxPrecipitation
    /\ solPhi \in 1..MaxPorosity
    /\ solAnswer = [t \in 1..3 |-> <<>>]
    /\ solWritten3 = <<>>

\* One of the initial states: the data of the exercise.
SolutionRest ==
    /\ solQ = Q_litres_per_second
    /\ solP = P_mm_per_day
    /\ solPhi = porosity_tenths
    /\ solAnswer = [t \in 1..3 |-> <<>>]
    /\ solWritten3 = <<>>

SolutionNext == Solve1 \/ Solve2 \/ Solve3 \/ Solution3Written

(***************************************************************************)
(* Exercises: check_task_with_solution                                     *)
(***************************************************************************)

\* The tasks exercise 1 launches.
TaskNames == {"task01_1", "task01_2", "task01_3"}

\* The values, in tenths, entered in an answer field.
TaskValues == 0..MaxTaskValue

\* A variant of new_task_widgets whose 'Show Solution' button is enabled.
new_task_widgets_enabled(task, first_id) ==
    [ task       |-> task,
      value      |-> 0,
      disabled   |-> FALSE,
      feedback   |-> "",
      solution   |-> FALSE,
      interacted |-> FALSE,
      ids        |-> first_id..(first_id + 4) ]

\* The widgets one call displays, as the recorded outputs show them:
\* FloatText(value=0.0), Button('Submit'), Output(), Button('Show Solution',
\* disabled=True), Output(); five new widget models.
new_task_widgets(task, first_id) ==
    [ task       |-> task,
      value      |-> 0,
      disabled   |-> TRUE,
      feedback   |-> "",
      solution   |-> FALSE,
      interacted |-> FALSE,
      ids        |-> first_id..(first_id + 4) ]

\* check_task_with_solution(task)
check_task_with_solution ==
    /\ Len(taskWidgets) < MaxTaskCalls
    /\ \E task \in TaskNames :
        taskWidgets' = Append(taskWidgets, new_task_widgets(task, nextModelId + 1))
    /\ nextModelId' = nextModelId + 5
    /\ UNCHANGED notTask

\* The learner types a number into the answer field of widget set k.
TaskEnterAnswer ==
    /\ \E k \in DOMAIN taskWidgets : \E v \in TaskValues :
        /\ v # taskWidgets[k].value
        /\ taskWidgets' = [taskWidgets EXCEPT ![k].value = v, ![k].interacted = TRUE]
    /\ UNCHANGED <<nextModelId, notTask>>

\* The learner clicks Submit of widget set k: the answer is graded in the
\* first Output and 'Show Solution' becomes available.
TaskSubmit ==
    /\ \E k \in DOMAIN taskWidgets : \E verdict \in {"Correct", "Incorrect"} :
        taskWidgets' = [taskWidgets EXCEPT ![k].feedback = verdict,
                                           ![k].disabled = FALSE,
                                           ![k].interacted = TRUE]
    /\ UNCHANGED <<nextModelId, notTask>>

\* The learner clicks 'Show Solution' of widget set k; a disabled button
\* takes no click.
TaskShowSolution ==
    /\ \E k \in DOMAIN taskWidgets :
        /\ ~taskWidgets[k].disabled
        /\ taskWidgets' = [taskWidgets EXCEPT ![k].solution = TRUE]
    /\ UNCHANGED <<nextModelId, notTask>>

TaskInit ==
    /\ taskWidgets = <<>>
    /\ nextModelId = 0

TaskNext == check_task_with_solution \/ TaskEnterAnswer \/ TaskSubmit \/ TaskShowSolution

(***************************************************************************)
(* Data management: config.py, config_template.py, download_named_file     *)
(***************************************************************************)

\* Dataset names, as written in a configuration or in a call.
name_wells == <<"w", "e", "l", "l", "s">>
name_Wells == <<"W", "e", "l", "l", "s">>
name_climate == <<"c", "l", "i", "m", "a", "t", "e">>

DatasetNames == { name_wells, name_Wells, name_climate }

\* "organized by data type (climate, rivers, gis, etc.)"
DataTypes == {"gis", "climate"}

\* "Case Studies: limmat (default), zarafshan"
CaseStudies == {"limmat", "zarafshan"}

\* The dataset names with a URL in the configuration in effect: config.py,
\* or config_template.py when there is no config.py.
configured_urls == IF configPresent THEN configUrls ELSE templateUrls

\* A variant of has_url that ignores the case of the letters.
has_url_ignoring_case(name) ==
    \E n \in configured_urls : lower(n) = lower(name)

\* Whether a URL is configured for the dataset of exactly this name.
has_url(name) == name \in configured_urls

\* A variant of data_dir that keeps every file of a case study in one folder.
data_dir_flat(data_type) ==
    <<"~", "applied_groundwater_modelling_data", caseStudy>>

\* ~/applied_groundwater_modelling_data/[case_study]/[data_type]
data_dir(data_type) ==
    <<"~", "applied_groundwater_modelling_data", caseStudy, data_type>>

\* The directory and the directories above it, up to the home directory.
with_parents(dir) == { SubSeq(dir, 1, n) : n \in 2..Len(dir) }

\* download_named_file(name, data_type): without a URL for the name the call
\* ends in the 'No URL configured' error; otherwise the directories are
\* created, the file is fetched unless it is already stored, and its path
\* is returned.  A fetch can fail ("Download failures").
download_named_file ==
    \E name \in DatasetNames : \E data_type \in DataTypes :
        /\ dataRequests < MaxRequests
        /\ dataRequests' = dataRequests + 1
        /\ lastRequest' = [name |-> name, data_type |-> data_type]
        /\ IF ~has_url(name)
           THEN /\ lastOutcome' = "No URL configured"
                /\ UNCHANGED <<dataDirs, dataFiles, downloadCount>>
           ELSE /\ dataDirs' = dataDirs \cup with_parents(data_dir(data_type))
                /\ IF Append(data_dir(data_type), name) \in dataFiles
                   THEN /\ lastOutcome' = "stored"
                        /\ UNCHANGED <<dataFiles, downloadCount>>
                   ELSE \/ /\ lastOutcome' = "downloaded"
                           /\ dataFiles' = dataFiles \cup { Append(data_dir(data_type), name) }
                           /\ downloadCount' = downloadCount + 1
                        \/ /\ lastOutcome' = "download failed"
                           /\ UNCHANGED <<dataFiles, downloadCount>>
        /\ UNCHANGED <<configPresent, configUrls, templateUrls, caseStudy, notData>>

\* The learner deletes a stored data file.
DeleteDataFile ==
    /\ \E f \in dataFiles : dataFiles' = dataFiles \ {f}
    /\ UNCHANGED <<configPresent, configUrls, templateUrls, caseStudy, dataDirs,
                   downloadCount, dataRequests, lastRequest, lastOutcome, notData>>

DataInit ==
    /\ templateUrls \in SUBSET DatasetNames
    /\ configPresent \in BOOLEAN
    /\ configUrls \in (IF configPresent THEN SUBSET DatasetNames ELSE { {} })
    /\ caseStudy \in (IF configPresent THEN CaseStudies ELSE {"limmat"})
    /\ dataDirs = {}
    /\ dataFiles = {}
    /\ downloadCount = 0
    /\ dataRequests = 0
    /\ lastRequest = [name |-> <<>>, data_type |-> ""]
    /\ lastOutcome = ""

\* One of the initial states: no config.py, a template with every dataset.
DataRest ==
    /\ templateUrls = DatasetNames
    /\ configPresent = FALSE
    /\ configUrls = {}
    /\ caseStudy = "limmat"
    /\ dataDirs = {}
    /\ dataFiles = {}
    /\ downloadCount = 0
    /\ dataRequests = 0
    /\ lastRequest = [name |-> <<>>, data_type |-> ""]
    /\ lastOutcome = ""

DataNext == download_named_file \/ DeleteDataFile

(***************************************************************************)
(* Accessibility: create_accessibility_switch, display_image               *)
(***************************************************************************)

\* The cells of the notebooks that call display_image, by the arguments
\* they pass: the README's call with alt_text, caption and
\* educational_context, the caption-only call of the MODFLOW notebook, and
\* the bare call of exercise 3.
image_cells ==
    << [alt_text |-> TRUE,  caption |-> TRUE,  educational_context |-> TRUE],
       [alt_text |-> FALSE, caption |-> TRUE,  educational_context |-> FALSE],
       [alt_text |-> FALSE, caption |-> FALSE, educational_context |-> FALSE] >>

\* is_accessibility_enabled()
is_accessibility_enabled == accessibility_enabled

\* A variant of display_image that shows the description and the context
\* in either mode.
display_image_any_mode(cell) ==
    {"image"}
    \cup (IF cell.caption THEN {"caption"} ELSE {})
    \cup (IF show_image_descriptions /\ cell.alt_text THEN {"description"} ELSE {})
    \cup (IF show_learning_context /\ cell.educational_context THEN {"context"} ELSE {})

\* display_image(...): the image and its caption, and, in accessibility
\* mode, the alt-text as a visible description and the learning-context
\* box, each if the call passes it and its option is checked.
display_image(cell) ==
    {"image"}
    \cup (IF cell.caption THEN {"caption"} ELSE {})
    \cup (IF is_accessibility_enabled /\ show_image_descriptions /\ cell.alt_text
          THEN {"description"} ELSE {})
    \cup (IF is_accessibility_enabled /\ show_learning_context /\ cell.educational_context
          THEN {"context"} ELSE {})

\* The learner clicks the toggle of the accessibility switch.
ToggleAccessibility ==
    /\ accessibility_enabled' = ~accessibility_enabled
    /\ UNCHANGED <<show_image_descriptions, show_learning_context, execution_count,
                   cellOutputs, notAccess>>

\* The learner ticks or unticks 'Show image descriptions', one of the
\* detailed options that appear with the mode enabled.
ToggleShowDescriptions ==
    /\ accessibility_enabled
    /\ show_image_descriptions' = ~show_image_descriptions
    /\ UNCHANGED <<accessibility_enabled, show_learning_context, execution_count,
                   cellOutputs, notAccess>>

\* The learner ticks or unticks 'Show learning context'.
ToggleShowContext ==
    /\ accessibility_enabled
    /\ show_learning_context' = ~show_learning_context
    /\ UNCHANGED <<accessibility_enabled, show_image_descriptions, execution_count,
                   cellOutputs, notAccess>>

\* The learner runs, or re-runs, an image cell: its output area is replaced
\* by what display_image shows under the settings in effect.
RunImageCell ==
    /\ execution_count < MaxExecutions
    /\ \E c \in DOMAIN image_cells :
        /\ execution_count' = execution_count + 1
        /\ cellOutputs' = [cellOutputs EXCEPT ![c] =
                              [execution_count |-> execution_count + 1,
                               shown |-> display_image(image_cells[c])]]
    /\ UNCHANGED <<accessibility_enabled, show_image_descriptions,
                   show_learning_context, notAccess>>

\* A fresh kernel: no cell has run, every detailed option is checked, and
\* the switch is in either position.
AccessInit ==
    /\ accessibility_enabled \in BOOLEAN
    /\ show_image_descriptions = TRUE
    /\ show_learning_context = TRUE
    /\ execution_count = 0
    /\ cellOutputs = [c \in DOMAIN image_cells |-> [execution_count |-> 0, shown |-> {}]]

\* One of the initial states: the switch is off.
AccessRest ==
    /\ accessibility_enabled = FALSE
    /\ show_image_descriptions = TRUE
    /\ show_learning_context = TRUE
    /\ execution_count = 0
    /\ cellOutputs = [c \in DOMAIN image_cells |-> [execution_count |-> 0, shown |-> {}]]

AccessNext == ToggleAccessibility \/ ToggleShowDescriptions \/ ToggleShowContext \/ RunImageCell

(***************************************************************************)
(* The 'Check Notebook Dependencies' workflow                              *)
(***************************************************************************)

\* Files of the repository, by folder, name and extension.
RepoPaths ==
    { [dir |-> <<"exercise01">>, name |-> "exercise01", ext |-> "ipynb"],
      [dir |-> <<>>, name |-> "requirements", ext |-> "txt"],
      [dir |-> <<>>, name |-> "environment_development", ext |-> "yml"],
      [dir |-> <<".github", "workflows">>, name |-> "check_dependencies", ext |-> "yml"] }

\* The sets of files an event touches.
Touched == { t \in SUBSET RepoPaths : t # {} /\ Cardinality(t) <= MaxTouched }

\* The two workflow files: the one installing requirements.txt with pip
\* and the one creating the conda environment.
WorkflowVersions == {"pip", "conda"}

\* A path filter '**.ext': any file with the extension, in any folder.
any_with_ext(ext, p) == p.ext = ext

\* A path filter naming one file of the top folder.
top_level_file(name, ext, p) == p.dir = <<>> /\ p.name = name /\ p.ext = ext

\* on.push.paths
push_paths(version, p) ==
    IF version = "pip"
    THEN any_with_ext("ipynb", p) \/ top_level_file("requirements", "txt", p)
    ELSE any_with_ext("ipynb", p) \/ any_with_ext("yml", p) \/ any_with_ext("yml", p)

\* A variant of workflow_triggers with the pull_request trigger in effect.
workflow_triggers_on_pull_request(version, event) ==
    \/ event.kind \in {"push", "pull_request"} /\ \E p \in event.paths : push_paths(version, p)
    \/ event.kind = "workflow_dispatch"

\* on: push with the path filters, and workflow_dispatch; the pull_request
\* trigger is commented out.
workflow_triggers(version, event) ==
    \/ event.kind = "push" /\ \E p \in event.paths : push_paths(version, p)
    \/ event.kind = "workflow_dispatch"

\* jobs.check-dependencies.steps, by what each step does.
workflow_steps(version) ==
    IF version = "pip"
    THEN << [name |-> "actions/checkout@v3", does |-> "checkout"],
            [name |-> "Set up Python", does |-> "python"],
            [name |-> "Install dependencies", does |-> "install"],
            [name |-> "Check notebook dependencies, except flopy", does |-> "check"] >>
    ELSE << [name |-> "actions/checkout@v3", does |-> "checkout"],
            [name |-> "Set up Python", does |-> "python"],
            [name |-> "Set up Conda", does |-> "install"],
            [name |-> "List the installed packages", does |-> "list"],
            [name |-> "Check notebook dependencies", does |-> "check"] >>

\* An event reaches the repository; if the workflow's `on` section says so
\* a run starts, executing its first step.
RepoEvent(event) ==
    /\ workflow_triggers(wfVersion, event) => Len(wfRuns) < MaxRuns
    /\ IF workflow_triggers(wfVersion, event)
       THEN /\ wfRuns' = Append(wfRuns, [event |-> event, completed |-> {}, executing |-> 1,
                                         status |-> "running"])
            /\ UNCHANGED wfIgnored
       ELSE /\ wfIgnored' = wfIgnored \cup { event.kind }
            /\ UNCHANGED wfRuns
    /\ UNCHANGED <<wfVersion, notWorkflow>>

Push == \E t \in Touched : RepoEvent([kind |-> "push", paths |-> t])

PullRequest == \E t \in Touched : RepoEvent([kind |-> "pull_request", paths |-> t])

WorkflowDispatch == RepoEvent([kind |-> "workflow_dispatch", paths |-> {}])

\* The executing step succeeds and the runner goes on to the next step;
\* after the last step the run has succeeded.
StepSucceeds ==
    /\ \E r \in DOMAIN wfRuns :
        /\ wfRuns[r].executing # 0
        /\ wfRuns' = [wfRuns EXCEPT
                        ![r].completed = @ \cup { wfRuns[r].executing },
                        ![r].executing = IF wfRuns[r].executing = Len(workflow_steps(wfVersion))
                                         THEN 0 ELSE wfRuns[r].executing + 1,
                        ![r].status = IF wfRuns[r].executing = Len(workflow_steps(wfVersion))
                                      THEN "succeeded" ELSE "running"]
    /\ UNCHANGED <<wfVersion, wfIgnored, notWorkflow>>

\* The executing step fails: the job stops, its later steps are skipped.
StepFails ==
    /\ \E r \in DOMAIN wfRuns :
        /\ wfRuns[r].executing # 0
        /\ wfRuns' = [wfRuns EXCEPT ![r].executing = 0, ![r].status = "failed"]
    /\ UNCHANGED <<wfVersion, wfIgnored, notWorkflow>>

WorkflowInit ==
    /\ wfVersion \in WorkflowVersions
    /\ wfIgnored = {}
    /\ wfRuns = <<>>

\* One of the initial states: the repository with the conda workflow.
WorkflowRest ==
    /\ wfVersion = "conda"
    /\ wfIgnored = {}
    /\ wfRuns = <<>>

WorkflowNext ==
    \/ Push \/ PullRequest \/ WorkflowDispatch
    \/ StepSucceeds \/ StepFails

(***************************************************************************)
(* Transport case study: scenario assignment and time stepping             *)
(***************************************************************************)

\* "Set to your group number (0-8)"
Groups == 0..8

\* A variant of transport_scenarios in which the last scenario is assigned
\* to group 7 as well.
transport_scenarios_shared_group ==
    << [id |-> 0, group |-> 0, contaminant |-> "Trichloroethylene (TCE)"],
       [id |-> 1, group |-> 1, contaminant |-> "Nitrate (NO3-)"],
       [id |-> 2, group |-> 2, contaminant |-> "Chloride (conservative tracer)"],
       [id |-> 3, group |-> 3, contaminant |-> "Benzene"],
       [id |-> 4, group |-> 4, contaminant |-> "Atrazine"],
       [id |-> 5, group |-> 5, contaminant |-> "PFOA (perfluorooctanoic acid)"],
       [id |-> 6, group |-> 6, contaminant |-> "Chloride"],
       [id |-> 7, group |-> 7, contaminant |-> "Ammonium"],
       [id |-> 8, group |-> 7, contaminant |-> "Chromium (Cr-VI)"] >>

\* scenarios: of the transport configuration, in the order of the file.
transport_scenarios ==
    << [id |-> 0, group |-> 0, contaminant |-> "Trichloroethylene (TCE)"],
       [id |-> 1, group |-> 1, contaminant |-> "Nitrate (NO3-)"],
       [id |-> 2, group |-> 2, contaminant |-> "Chloride (conservative tracer)"],
       [id |-> 3, group |-> 3, contaminant |-> "Benzene"],
       [id |-> 4, group |-> 4, contaminant |-> "Atrazine"],
       [id |-> 5, group |-> 5, contaminant |-> "PFOA (perfluorooctanoic acid)"],
       [id |-> 6, group |-> 6, contaminant |-> "Chloride"],
       [id |-> 7, group |-> 7, contaminant |-> "Ammonium"],
       [id |-> 8, group |-> 8, contaminant |-> "Chromium (Cr-VI)"] >>

RECURSIVE select_from(_, _)
\* The scenarios of a list that are assigned to group g, in order.
select_from(list, g) ==
    IF list = <<>> THEN <<>>
    ELSE IF Head(list).group = g
         THEN <<Head(list)>> \o select_from(Tail(list), g)
         ELSE select_from(Tail(list), g)

\* "select by group number"
select_scenario(g) == select_from(transport_scenarios, g)

\* The configuration cell: load the configurations and select the
\* scenario of the group.
LoadTransportConfig ==
    /\ scenarioLoaded' = TRUE
    /\ groupScenario' = select_scenario(group_number)
    /\ UNCHANGED <<group_number, steps_per_day, nstp, modelNstp, crMax, notTransport>>

\* "Duration: 60 days"
total_days == 60

\* nstp = [int(total_days)]: one time step per day.
original_steps_per_day == 1

\* nstp = [int(total_days * 30)]
fixed_steps_per_day == 30

\* "Original: nstp = [60] -> dt = 1 day -> Cr_max = 1382": the largest
\* v / dx of the grid, per day.
Cr_max_original == 1382

\* Cr = v * dt / dx with dt = total_days / nstp days, for the cell with the
\* largest v / dx, in thousandths (rounded down).
courant_max_thousandths(steps) == (Cr_max_original * 1000 * total_days) \div steps

\* Task 2 of the fixes plan: Cell 48 is changed to 30 time steps per day.
ApplyTask2 ==
    /\ steps_per_day = original_steps_per_day
    /\ steps_per_day' = fixed_steps_per_day
    /\ UNCHANGED <<group_number, scenarioLoaded, groupScenario, nstp, modelNstp, crMax,
                   notTransport>>

\* Cell 48, temporal discretization: nstp = [int(total_days * steps)]
Cell48 ==
    /\ nstp' = total_days * steps_per_day
    /\ nstp' # nstp
    /\ UNCHANGED <<group_number, scenarioLoaded, groupScenario, steps_per_day, modelNstp, crMax,
                   notTransport>>

\* The transport model is run with the time stepping of Cell 48.
RunTransportModel ==
    /\ scenarioLoaded
    /\ nstp # 0
    /\ modelNstp' = nstp
    /\ modelNstp' # modelNstp
    /\ UNCHANGED <<group_number, scenarioLoaded, groupScenario, steps_per_day, nstp, crMax,
                   notTransport>>

\* Cell 89, stability check: the maximum Courant number of the last run.
Cell89 ==
    /\ modelNstp # 0
    /\ crMax' = courant_max_thousandths(modelNstp)
    /\ crMax' # crMax
    /\ UNCHANGED <<group_number, scenarioLoaded, groupScenario, steps_per_day, nstp, modelNstp,
                   notTransport>>

\* A group's notebook before its first cell: any group number, Cell 48
\* as originally written.
TransportInit ==
    /\ group_number \in Groups
    /\ scenarioLoaded = FALSE
    /\ groupScenario = <<>>
    /\ steps_per_day = original_steps_per_day
    /\ nstp = 0
    /\ modelNstp = 0
    /\ crMax = -1

\* One of the initial states: the demo notebook of group 0.
TransportRest ==
    /\ group_number = 0
    /\ scenarioLoaded = FALSE
    /\ groupScenario = <<>>
    /\ steps_per_day = original_steps_per_day
    /\ nstp = 0
    /\ modelNstp = 0
    /\ crMax = -1

TransportNext == LoadTransportConfig \/ ApplyTask2 \/ Cell48 \/ RunTransportModel \/ Cell89

(***************************************************************************)
(* Specifications                                                          *)
(***************************************************************************)

Init ==
    /\ QuizInit /\ DarcyInit /\ ClimateInit /\ RunningInit /\ EvalInit
    /\ SolutionInit /\ TaskInit /\ DataInit
    /\ AccessInit
    /\ WorkflowInit
    /\ TransportInit

Next ==
    \/ QuizNext \/ DarcyNext \/ ClimateNext \/ RunningNext \/ EvalNext
    \/ SolutionNext \/ TaskNext \/ DataNext
    \/ AccessNext
    \/ WorkflowNext
    \/ TransportNext

Spec == Init /\ [][Next]_vars

\* The initial state with every component that has several at its first.
InitRest ==
    /\ QuizInit /\ DarcyInit /\ ClimateRest /\ RunningInit /\ EvalInit
    /\ SolutionRest /\ TaskInit /\ DataRest
    /\ AccessRest
    /\ WorkflowRest
    /\ TransportRest

\* The quiz cells of exercise 1 alone, the rest of the repository at rest.
SpecQuiz == InitRest /\ [][QuizNext]_vars

\* The Darcy flow widget alone.
SpecDarcy == InitRest /\ [][DarcyNext]_vars

\* The climate data cell alone, from every working directory and disk.
InitClimate ==
    /\ QuizInit /\ DarcyInit /\ ClimateInit /\ RunningInit /\ EvalInit
    /\ SolutionRest /\ TaskInit /\ DataRest
    /\ AccessRest
    /\ WorkflowRest
    /\ TransportRest

SpecClimate == InitClimate /\ [][ClimateNext]_vars

\* The kernel's requests and the downloader's run.
SpecRunning == InitRest /\ [][RunningNext]_vars

\* The evaluation exercise alone.
SpecEval == InitRest /\ [][EvalNext]_vars

InitSolution ==
    /\ QuizInit /\ DarcyInit /\ ClimateRest /\ RunningInit /\ EvalInit
    /\ SolutionInit /\ TaskInit /\ DataRest
    /\ AccessRest
    /\ WorkflowRest
    /\ TransportRest

\* The worked solutions of exercise 1, for every discharge, precipitation
\* rate and porosity within the bounds.
SpecSolution == InitSolution /\ [][SolutionNext]_vars

\* The task widgets alone.
SpecTask == InitRest /\ [][TaskNext]_vars

InitData ==
    /\ QuizInit /\ DarcyInit /\ ClimateRest /\ RunningInit /\ EvalInit
    /\ SolutionRest /\ TaskInit /\ DataInit
    /\ AccessRest
    /\ WorkflowRest
    /\ TransportRest

\* The data download system alone, for every configuration.
SpecData == InitData /\ [][DataNext]_vars

InitAccess ==
    /\ QuizInit /\ DarcyInit /\ ClimateRest /\ RunningInit /\ EvalInit
    /\ SolutionRest /\ TaskInit /\ DataRest
    /\ AccessInit
    /\ WorkflowRest
    /\ TransportRest

\* The accessibility switch and the image cells alone.
SpecAccess == InitAccess /\ [][AccessNext]_vars

InitWorkflow ==
    /\ QuizInit /\ DarcyInit /\ ClimateRest /\ RunningInit /\ EvalInit
    /\ SolutionRest /\ TaskInit /\ DataRest
    /\ AccessRest
    /\ WorkflowInit
    /\ TransportRest

\* The dependency-check workflow alone, for either workflow file.
SpecWorkflow == InitWorkflow /\ [][WorkflowNext]_vars

InitTransport ==
    /\ QuizInit /\ DarcyInit /\ ClimateRest /\ RunningInit /\ EvalInit
    /\ SolutionRest /\ TaskInit /\ DataRest
    /\ AccessRest
    /\ WorkflowRest
    /\ TransportInit

\* The transport case study notebook alone, for every group.
SpecTransport == InitTransport /\ [][TransportNext]_vars

(***************************************************************************)
(* Properties                                                              *)
(***************************************************************************)

\* The key of checker n.
KeyOf(n) == CASE n = 1 -> correct_answers1 [] n = 2 -> correct_answers2 [] OTHER -> correct_answers3

\* C1: the quiz checkers are stateless: whatever cells ran before, the score
\* a checker returns is 1 if the entered answer, lower-cased and trimmed,
\* is the checker's key, and 0 otherwise; it never accumulates.
C1_Stateless ==
    lastTask # 0 =>
        /\ scoreBound
        /\ score = (IF strip(lower(lastRaw)) = KeyOf(lastTask) THEN 1 ELSE 0)

\* C1 witness: a checker has returned 1 for a correct answer typed with
\* whitespace around it (so an earlier cell has left `score` bound).
C1_Witness ==
    /\ lastTask = 1
    /\ lastRaw = <<" ", "1", ".", "7", " ">>
    /\ score = 1

RECURSIVE Times(_, _)
\* The product a * b of naturals by repeated addition.
Times(a, b) == IF b = 0 THEN 0 ELSE a + Times(a, b - 1)

\* C2: the flow rate the widget holds is the Darcy product K * i * A of the
\* slider values, here checked against the product by repeated addition.
C2_DarcyProduct ==
    darcyShown => flowQ = Times(Times(sliderK, sliderI), sliderA)

\* C2 witness: the learner has moved all three sliders off their values and
\* the widget shows the flow for K = 0.3 m/day, i = 0.007, A = 12 m^2.
C2_Witness ==
    /\ darcyShown
    /\ sliderK = 3 /\ sliderI = 7 /\ sliderA = 12
    /\ flowQ = 252

\* C3: the check of the climate data directory only prints: once the check
\* has run, its output is the one line 'Path ... does not exist.' exactly
\* when the path is missing and nothing when it exists; the cell never stops
\* at the check, and read_climate_data is then called with data_path, missing
\* or not (an exception can only come from inside that call).
C3_CheckOnlyPrints ==
    /\ climatePc # "ready" =>
          /\ data_path = climate_data_path(cwd)
          /\ Len(climateOut) >= (IF data_path \in fs THEN 0 ELSE 1)
          /\ data_path \notin fs =>
                climateOut[1] = Line("Path {data_path} does not exist.", data_path)
          /\ data_path \in fs =>
                \A k \in 1..Len(climateOut) :
                    climateOut[k].text # "Path {data_path} does not exist."
    /\ climatePc \in {"reading", "displayed", "raised"} => readArgs = <<data_path>>
    /\ climatePc = "checked" => readArgs = <<>>

\* C3 witness: the path is missing, the message was printed, and
\* read_climate_data has nevertheless been called with the missing path.
C3_Witness ==
    /\ climatePc = "reading"
    /\ data_path \notin fs
    /\ data_path = <<"home", "case_studies", "case_study_zurich", "data", "climate">>
    /\ Len(climateOut) = 1
    /\ readArgs = <<data_path>>

\* C4 as stated: at any time at most one operation is in progress, in the
\* kernel and among the downloader's download/processing tasks.
C4_OneOperationAtATime ==
    /\ Cardinality(kernelBusy) <= 1
    /\ Cardinality(dlActive) <= 1

\* C4 as amended: the kernel executes one cell or callback at a time; the
\* downloader processes at most as many wells at once as it has worker
\* threads, which is one unless a third argument asks for more.
C4_OnePerWorker ==
    /\ Cardinality(kernelBusy) <= 1
    /\ Cardinality(dlActive) <= dlWorkers
    /\ Len(dlArgv) < 3 => Cardinality(dlActive) <= 1
    /\ Len(dlArgv) = 3 => dlWorkers = dlArgv[3]

\* C4 witness: started with 2 worker threads, two wells are in progress at
\* once, both part-way through their years, while the kernel runs a cell.
C4_Witness ==
    /\ dlPc = "running"
    /\ dlWorkers = 2
    /\ Cardinality(dlActive) = 2
    /\ \E v, w \in dlActive : v # w /\ dlStats[v] # {} /\ dlStats[w] # {}
    /\ Cardinality(kernelBusy) = 1

\* The verdict print calls.
Verdicts == { Line("Correct!", ""), Line("Incorrect.", "") }

\* C5: once Submit of a scenario has been clicked, its output holds exactly
\* one verdict, 'Correct!' or 'Incorrect.', and the print call right after
\* the verdict is the explanation of that same scenario, whichever option
\* was selected.
C5_VerdictThenExplanation ==
    \A k \in DOMAIN scenarios :
        evalSubmitted[k] # "none" =>
            /\ Cardinality({ n \in 1..Len(evalOutput[k]) : evalOutput[k][n] \in Verdicts }) = 1
            /\ \A n \in 1..Len(evalOutput[k]) :
                  evalOutput[k][n] \in Verdicts =>
                      /\ n < Len(evalOutput[k])
                      /\ evalOutput[k][n + 1] = Line("\nExplanation: ", scenarios[k].explanation)

\* C5 witness: a correct and an incorrect submission are on screen at once:
\* 'No' on the granite scenario and 'No' on the sand scenario.
C5_Witness ==
    /\ evalSubmitted[0] = "No" /\ evalOutput[0][1] = Line("Correct!", "")
    /\ evalSubmitted[1] = "No" /\ evalOutput[1][1] = Line("Incorrect.", "")

\* The option for which Darcy's law is graded as applying or not: only the
\* homogeneous sand aquifer (scenario 1) is a 'Yes'.
RightOption(k) == IF k = 1 THEN "Yes" ELSE "No"

\* C6: an Output never accumulates: it is empty until the first click and
\* afterwards holds the two print calls of the most recent click alone, the
\* verdict being the one for the selection in effect at that click, also
\* after the selection has been changed again.
C6_OnlyLatestFeedback ==
    \A k \in DOMAIN scenarios :
        IF evalSubmitted[k] = "none"
        THEN evalOutput[k] = <<>>
        ELSE evalOutput[k] =
                << IF evalSubmitted[k] = RightOption(k)
                   THEN Line("Correct!", "") ELSE Line("Incorrect.", ""),
                   Line("\nExplanation: ", scenarios[k].explanation) >>

\* C6 witness: the karst scenario was submitted with 'No', and the selection
\* has since been changed back to 'Yes' without a new click.
C6_Witness ==
    /\ evalSubmitted[2] = "No"
    /\ evalAnswer[2] = "Yes"
    /\ evalOutput[2][1] = Line("Correct!", "")
    /\ Len(evalOutput[2]) = 2

\* The data of exercise 1 are the ones worked with.
DocumentedData ==
    /\ solQ = Q_litres_per_second
    /\ solP = P_mm_per_day
    /\ solPhi = porosity_tenths

\* C7: with Q = 20 L/s (1728 m^3/day), P = 1 mm/day and porosity 0.2, the
\* area Q / P in km^2 with one decimal is written '1.7', the key of task 1,
\* and the volume Q * 365 days / porosity in m^3 is written '3153600', the
\* key of task 2.
C7_KeysAreSolutions ==
    DocumentedData =>
        /\ solAnswer[1] # <<>> => solAnswer[1] = correct_answers1
        /\ solAnswer[2] # <<>> => solAnswer[2] = correct_answers2
        /\ discharge_tenths_m3_per_day(solQ) = 17280

\* C7 witness: tasks 1 and 2 have been worked out from the exercise's data.
C7_Witness ==
    /\ DocumentedData
    /\ solAnswer[1] = <<"1", ".", "7">>
    /\ solAnswer[2] = <<"3", "1", "5", "3", "6", "0", "0">>

\* C8: the quotient of Solution 3, 3123600 / (1.7 x 10^6) m, rounded to one
\* decimal, is the text check_task3 accepts.
C8_Solution3IsKey ==
    solWritten3 # <<>> => solWritten3 = correct_answers3

\* Every widget set the learner has not touched is in the initial state, a
\* shown solution was preceded by an interaction, and no two widget sets
\* share a widget.
C9_Untouched ==
    /\ \A k \in DOMAIN taskWidgets :
          /\ ~taskWidgets[k].interacted =>
                /\ taskWidgets[k].value = 0
                /\ taskWidgets[k].disabled
                /\ taskWidgets[k].feedback = ""
          /\ taskWidgets[k].solution => taskWidgets[k].interacted
          /\ Cardinality(taskWidgets[k].ids) = 5
    /\ \A j, k \in DOMAIN taskWidgets :
          j # k => taskWidgets[j].ids \cap taskWidgets[k].ids = {}

\* A step changes at most one widget set and never one displayed earlier
\* by displaying another.
C9_Independent ==
    /\ \A j, k \in DOMAIN taskWidgets :
          (j # k /\ taskWidgets'[j] # taskWidgets[j]) => taskWidgets'[k] = taskWidgets[k]
    /\ Len(taskWidgets') # Len(taskWidgets) =>
          \A k \in DOMAIN taskWidgets : taskWidgets'[k] = taskWidgets[k]

C10_NoUrlNoDownload ==
    [][ dataRequests' # dataRequests =>
          LET cfg == IF configPresent THEN configUrls ELSE templateUrls
          IN  lastRequest'.name \notin cfg =>
                /\ lastOutcome' = "No URL configured"
                /\ dataFiles' = dataFiles
                /\ dataDirs' = dataDirs
                /\ downloadCount' = downloadCount ]_vars

\* C10 witness: without a config.py and with 'wells' in the template,
\* 'wells' has been downloaded, and the later request for 'Wells' ended in
\* the error with nothing more fetched.
C10_Witness ==
    /\ ~configPresent
    /\ templateUrls = { name_wells }
    /\ lastRequest.name = name_Wells
    /\ lastOutcome = "No URL configured"
    /\ downloadCount = 1
    /\ \A f \in dataFiles : f[Len(f)] = name_wells

\* Every stored file lies in ~/applied_groundwater_modelling_data, in the
\* folder of the case study in effect and there in the folder of a data
\* type, and every folder on the way to it exists.
C11_StoredByType ==
    /\ \A f \in dataFiles :
          /\ Len(f) = 5
          /\ f[1] = "~"
          /\ f[2] = "applied_groundwater_modelling_data"
          /\ f[3] = caseStudy
          /\ f[4] \in DataTypes
          /\ f[5] \in DatasetNames
          /\ \A n \in 2..4 : SubSeq(f, 1, n) \in dataDirs
    /\ caseStudy \in {"limmat", "zarafshan"}
    /\ ~configPresent => caseStudy = "limmat"

\* A fetch happens only for a file that is not stored yet and stores that
\* file under the requested data type; a call that returns a path leaves
\* the file and its folders on disk.
C11_FetchWhenMissing ==
    /\ downloadCount' # downloadCount =>
          LET f == <<"~", "applied_groundwater_modelling_data", caseStudy,
                     lastRequest'.data_type, lastRequest'.name>>
          IN  /\ f \notin dataFiles
              /\ dataFiles' = dataFiles \cup {f}
              /\ downloadCount' = downloadCount + 1
    /\ (dataRequests' # dataRequests /\ lastOutcome' \in {"stored", "downloaded"}) =>
          LET f == <<"~", "applied_groundwater_modelling_data", caseStudy,
                     lastRequest'.data_type, lastRequest'.name>>
          IN  /\ f \in dataFiles'
              /\ \A n \in 2..4 : SubSeq(f, 1, n) \in dataDirs'
              /\ f \in dataFiles => downloadCount' = downloadCount

C12_Rerun == { c \in DOMAIN image_cells : cellOutputs'[c] # cellOutputs[c] }

\* A step that changes a setting leaves every displayed output as it is,
\* and an output changes only by a run of its own cell.
C12_OnlyByRerun ==
    /\ (\/ accessibility_enabled' # accessibility_enabled
        \/ show_image_descriptions' # show_image_descriptions
        \/ show_learning_context' # show_learning_context) => cellOutputs' = cellOutputs
    /\ \A c \in C12_Rerun :
          /\ execution_count' = execution_count + 1
          /\ cellOutputs'[c].execution_count = execution_count'
          /\ C12_Rerun = {c}
    /\ execution_count' # execution_count => C12_Rerun # {}

\* C12 as stated: an image cell run with accessibility mode ON shows the
\* description and the learning-context box the call passes, one run with
\* the mode OFF shows neither, and a displayed output changes only when its
\* cell is re-run.
C12_ModeAloneDecides ==
    [][ /\ C12_OnlyByRerun
        /\ \A c \in C12_Rerun :
              /\ "description" \in cellOutputs'[c].shown
                    <=> (accessibility_enabled /\ image_cells[c].alt_text)
              /\ "context" \in cellOutputs'[c].shown
                    <=> (accessibility_enabled /\ image_cells[c].educational_context) ]_vars

\* C12 as amended: with the mode ON an image cell shows the description if
\* 'Show image descriptions' is checked and the learning-context box if
\* 'Show learning context' is checked (both are by default); with the mode
\* OFF it shows neither; and a displayed output changes only when its cell
\* is re-run, whatever is toggled in between.
C12_ModeAndOptionsDecide ==
    [][ /\ C12_OnlyByRerun
        /\ \A c \in C12_Rerun :
              /\ "image" \in cellOutputs'[c].shown
              /\ "description" \in cellOutputs'[c].shown
                    <=> /\ accessibility_enabled
                        /\ show_image_descriptions
                        /\ image_cells[c].alt_text
              /\ "context" \in cellOutputs'[c].shown
                    <=> /\ accessibility_enabled
                        /\ show_learning_context
                        /\ image_cells[c].educational_context ]_vars

\* C12 witness: the mode is OFF; the README's cell, run first with the
\* mode ON, still shows its description and context box, while the
\* caption-only cell, run after the toggle, shows image and caption.
C12_Witness ==
    /\ ~accessibility_enabled
    /\ cellOutputs[1] = [execution_count |-> 1,
                         shown |-> {"image", "caption", "description", "context"}]
    /\ cellOutputs[2] = [execution_count |-> 2, shown |-> {"image", "caption"}]

\* The settings and the progress of a run agree with its command line.
C13_RunAsCommanded ==
    dlPc # "idle" =>
        /\ Len(dlArgv) = 0 => (dlStart = 1970 /\ dlEnd = PresentYear)
        /\ Len(dlArgv) >= 2 => (dlStart = dlArgv[1] /\ dlEnd = dlArgv[2])
        /\ dlWorkers = (IF Len(dlArgv) = 3 THEN dlArgv[3] ELSE 1)
        /\ Cardinality(dlActive) <= dlWorkers
        /\ \A w \in Wells :
              /\ dlStats[w] \subseteq dlStart..dlEnd
              /\ (dlPc = "done" \/ (w \notin dlPending /\ w \notin dlActive))
                    => dlStats[w] = dlStart..dlEnd

\* A worker that has downloaded a year goes through the delay before its
\* next download.
C13_DelayBetween ==
    \A w \in Wells :
        dlStats'[w] # dlStats[w] /\ dlStats'[w] # {} =>
            /\ w \notin dlWaiting
            /\ w \in dlWaiting'

C14_NotebookOrEnvironment(p) ==
    \/ p.ext = "ipynb"
    \/ p.name = "requirements" /\ p.ext = "txt"
    \/ p.name = "environment_development" /\ p.ext = "yml"

\* The steps the dependency check comes after.
C14_Before ==
    { k \in DOMAIN workflow_steps(wfVersion) :
        workflow_steps(wfVersion)[k].does \in {"checkout", "python", "install"} }

\* The dependency check of run r is executing or has been executed.
C14_CheckReached(r) ==
    \E k \in DOMAIN workflow_steps(wfVersion) :
        /\ workflow_steps(wfVersion)[k].does = "check"
        /\ (wfRuns[r].executing = k \/ k \in wfRuns[r].completed)

\* No run was started by a pull request, and the check runs after
\* checkout, Python setup and the installation have completed.
C14_NoPullRequestAndOrder ==
    \A r \in DOMAIN wfRuns :
        /\ wfRuns[r].event.kind \in {"push", "workflow_dispatch"}
        /\ Cardinality(C14_Before) = 3
        /\ C14_CheckReached(r) => C14_Before \subseteq wfRuns[r].completed

\* C14 as stated: every run was started by a push touching a notebook or
\* an environment or requirements file, or by a manual dispatch, never by
\* a pull request, and its dependency check runs only after checkout,
\* Python setup and the installation have completed.
C14_OnlyNotebookOrEnvironmentPush ==
    /\ C14_NoPullRequestAndOrder
    /\ \A r \in DOMAIN wfRuns :
          wfRuns[r].event.kind = "push" =>
              \E p \in wfRuns[r].event.paths : C14_NotebookOrEnvironment(p)

\* C14 as amended: every run was started by a manual dispatch or by a push
\* touching a file the path filters name: a notebook, and requirements.txt
\* for the pip workflow or any .yml file, the workflow files included, for
\* the conda workflow; never by a pull request; and the check runs only
\* after checkout, Python setup and the installation have completed.
C14_OnlyFilteredPush ==
    /\ C14_NoPullRequestAndOrder
    /\ \A r \in DOMAIN wfRuns :
          wfRuns[r].event.kind = "push" =>
              \E p \in wfRuns[r].event.paths :
                  \/ p.ext = "ipynb"
                  \/ wfVersion = "pip" /\ p.dir = <<>> /\ p.name = "requirements" /\ p.ext = "txt"
                  \/ wfVersion = "conda" /\ p.ext = "yml"

\* C14 witness: under the conda workflow a pull request has started
\* nothing, while the run started by a push of the environment
\* file is executing its dependency check, the four steps before it done.
C14_Witness ==
    /\ wfVersion = "conda"
    /\ "pull_request" \in wfIgnored
    /\ Len(wfRuns) = 1
    /\ wfRuns[1].event.kind = "push"
    /\ wfRuns[1].event.paths = { [dir |-> <<>>, name |-> "environment_development", ext |-> "yml"] }
    /\ wfRuns[1].executing = 5
    /\ wfRuns[1].completed = {1, 2, 3, 4}

\* C15: the scenario list holds exactly one scenario for each group 0 to
\* 8 and nothing else, every scenario's id is its group, no id occurs
\* twice, and the selection by group number yields exactly one scenario,
\* the one whose id is the group number.
C15_OneScenarioPerGroup ==
    /\ Len(transport_scenarios) = 9
    /\ \A g \in 0..8 :
          Cardinality({ k \in DOMAIN transport_scenarios : transport_scenarios[k].group = g }) = 1
    /\ \A k \in DOMAIN transport_scenarios :
          /\ transport_scenarios[k].id = transport_scenarios[k].group
          /\ transport_scenarios[k].group \in 0..8
    /\ \A j, k \in DOMAIN transport_scenarios :
          j # k => transport_scenarios[j].id # transport_scenarios[k].id
    /\ scenarioLoaded =>
          /\ Len(groupScenario) = 1
          /\ groupScenario[1].id = group_number
          /\ groupScenario[1].group = group_number

\* C15 witness: group 8 has loaded its configuration and holds the
\* chromium scenario alone.
C15_Witness ==
    /\ group_number = 8
    /\ scenarioLoaded
    /\ groupScenario = << [id |-> 8, group |-> 8, contaminant |-> "Chromium (Cr-VI)"] >>

\* C16: with nstp = 60 for the 60 days the maximum Courant number is 1382,
\* and with nstp = int(total_days * 30) = 1800 it is below 1.0.
C16_FixBringsCourantBelowOne ==
    /\ nstp # 0 => nstp = 60 * steps_per_day
    /\ (crMax # -1 /\ modelNstp = 60) => crMax = 1382000
    /\ (crMax # -1 /\ modelNstp = 1800) => crMax < 1000

\* The submission of scenario k is graded correct, or incorrect.
C17_Graded(k, verdict) ==
    \E n \in DOMAIN evalOutput[k] : evalOutput[k][n] = Line(verdict, "")

\* C17: a submission is graded correct exactly when (selection = 'Yes')
\* equals the scenario's 'correct' flag, and incorrect otherwise: for the
\* fractured granite and the karst scenario only 'No' is graded correct,
\* for the homogeneous sand scenario only 'Yes'.
C17_GradedByFlag ==
    \A k \in DOMAIN scenarios :
        evalSubmitted[k] # "none" =>
            /\ C17_Graded(k, "Correct!")
                  <=> ((evalSubmitted[k] = "Yes") = scenarios[k].correct)
            /\ C17_Graded(k, "Incorrect.") <=> ~C17_Graded(k, "Correct!")
            /\ scenarios[k].description
                  \in { "Flow through a fractured granite bedrock with large apertures",
                        "Flow in a karst aquifer with large solution channels" }
                  => (C17_Graded(k, "Correct!") <=> evalSubmitted[k] = "No")
            /\ scenarios[k].description = "Flow through a homogeneous sand aquifer"
                  => (C17_Graded(k, "Correct!") <=> evalSubmitted[k] = "Yes")

\* C17 witness: 'Yes' was submitted for all three scenarios: graded
\* incorrect for the granite and the karst, correct for the sand.
C17_Witness ==
    /\ \A k \in DOMAIN scenarios : evalSubmitted[k] = "Yes"
    /\ C17_Graded(0, "Incorrect.") /\ ~C17_Graded(0, "Correct!")
    /\ C17_Graded(1, "Correct!") /\ ~C17_Graded(1, "Incorrect.")
    /\ C17_Graded(2, "Incorrect.") /\ ~C17_Graded(2, "Correct!")

\* The text is the key with nothing but whitespace before and after it.
C18_KeyInWhitespace(raw, key) ==
    \E a \in 0..Len(raw) :
        /\ a + Len(key) <= Len(raw)
        /\ \A n \in 1..a : raw[n] \in {" ", "\t"}
        /\ \A n \in 1..Len(key) : raw[a + n] = key[n]
        /\ \A n \in (a + Len(key) + 1)..Len(raw) : raw[n] \in {" ", "\t"}

\* The text is one of the other spellings of 1.7 given, '1.70' or '1,7',
\* possibly with whitespace around it.
C18_OtherSpelling(raw) ==
    \/ C18_KeyInWhitespace(raw, <<"1", ".", "7", "0">>)
    \/ C18_KeyInWhitespace(raw, <<"1", ",", "7">>)

\* C18: the checker that ran last printed 'Correct!' if the entered text,
\* its surrounding whitespace aside, is character for character the key,
\* and otherwise 'Incorrect. The correct answer is <key>'; in particular
\* '1.70' and '1,7' are graded incorrect by check_task1.
C18_ExactTextOnly ==
    lastTask # 0 =>
        LET key == KeyOf(lastTask)
            verdict == stdout[Len(stdout)]
        IN  /\ Len(stdout) = 3
            /\ verdict = Line("Correct!", <<>>) <=> C18_KeyInWhitespace(lastRaw, key)
            /\ verdict = Line("Incorrect. The correct answer is ", key)
                  <=> ~C18_KeyInWhitespace(lastRaw, key)
            /\ (lastTask = 1 /\ C18_OtherSpelling(lastRaw)) =>
                  /\ verdict = Line("Incorrect. The correct answer is ", <<"1", ".", "7">>)
                  /\ score = 0

\* C18 witness: '1.70' followed by a blank was entered in check_task1 and
\* graded incorrect, the trimmed text being echoed.
C18_Witness ==
    /\ lastTask = 1
    /\ lastRaw = <<"1", ".", "7", "0", " ">>
    /\ stdout[2] = Line("Your answer : ", <<"1", ".", "7", "0">>)
    /\ stdout[3] = Line("Incorrect. The correct answer is ", <<"1", ".", "7">>)
    /\ score = 0

====
